---------------------------- MODULE Spec2Model ----------------------------
(***************************************************************************)
(* A model of the Crawlio demonstration scripts: the API client of         *)
(* crawlio_client.py (register_user, crawl_url, get_crawl_history), its    *)
(* demo driver main, and the drivers of crawl_wiki.py and                  *)
(* simple_crawler.py.  The remote service is the environment: every        *)
(* network call is answered by a response drawn from a small set.          *)
(*                                                                         *)
(* Text is modelled as sequences of character codes.  A response body is   *)
(* the text the server sent; response.json() and json.dump are modelled    *)
(* at the level of characters (JsonLoads, JsonDumpChunks).                 *)
(***************************************************************************)
EXTENDS Integers, Sequences, FiniteSets, TLC

(***************************************************************************)
(* Python / JSON values.  null doubles as Python's None.                   *)
(***************************************************************************)
JNull == [t |-> "null"]
JStr(s) == [t |-> "str", s |-> s]
JArr(a) == [t |-> "arr", a |-> a]
JObj(o) == [t |-> "obj", o |-> o]
PyBool(b) == [t |-> "bool", b |-> b]
PyNone == JNull
Member(k, v) == [k |-> k, v |-> v]

\* Python truthiness: None, "", [] and {} are falsy.
Truthy(v) ==
  CASE v.t = "null" -> FALSE
    [] v.t = "str" -> Len(v.s) > 0
    [] v.t = "arr" -> Len(v.a) > 0
    [] v.t = "obj" -> Len(v.o) > 0
    [] v.t = "bool" -> v.b

\* key in d, for a dict d
HasKey(d, k) == \E i \in 1..Len(d.o) : d.o[i].k = k

\* DictGet with the lookup lost: always the default
DictGet_NoLookup(d, k, default) == default

\* DictGet with '' where the caller's default belongs
DictGet_EmptyDefault(d, k, default) ==
  IF HasKey(d, k)
  THEN d.o[CHOOSE i \in 1..Len(d.o) : d.o[i].k = k].v
  ELSE JStr(<<>>)

\* d.get(k, default), for a dict d
DictGet(d, k, default) ==
  IF HasKey(d, k)
  THEN d.o[CHOOSE i \in 1..Len(d.o) : d.o[i].k = k].v
  ELSE default

(***************************************************************************)
(* Characters.  34 is the double quote, 92 the backslash, 10 the newline,  *)
(* 32 the space; codes 55296..57343 are surrogates, which UTF-8 refuses.   *)
(***************************************************************************)
IsSurrogate(c) == c >= 55296 /\ c <= 57343
HasSurrogate(s) == \E i \in 1..Len(s) : IsSurrogate(s[i])
IsWs(c) == c \in {32, 10}

RECURSIVE Flatten(_)
Flatten(chunks) ==
  IF Len(chunks) = 0 THEN <<>>
  ELSE IF Len(chunks) = 1 THEN chunks[1]
  ELSE LET m == Len(chunks) \div 2
       IN Flatten(SubSeq(chunks, 1, m)) \o Flatten(SubSeq(chunks, m + 1, Len(chunks)))

\* json.encoder.py_encode_basestring (ensure_ascii=False): a quote or a
\* backslash is written behind a backslash, every other character as it is.
EscapeChar(c) == IF c \in {34, 92} THEN <<92, c>> ELSE <<c>>
Escape(s) == Flatten([i \in 1..Len(s) |-> EscapeChar(s[i])])
Encoder(s) == <<34>> \o Escape(s) \o <<34>>

\* '\n' followed by `level` indents of two spaces (indent=2)
NewlineIndent(level) == <<10>> \o [i \in 1..(2 * level) |-> 32]

NullText == <<110, 117, 108, 108>>

\* The chunks json.dump(obj, f, indent=2, ensure_ascii=False) hands to
\* f.write, in order (json.encoder._make_iterencode).
RECURSIVE JsonDumpChunks(_, _)
JsonDumpChunks(v, level) ==
  CASE v.t = "null" -> <<NullText>>
    [] v.t = "str" -> <<Encoder(v.s)>>
    [] v.t = "arr" ->
         IF Len(v.a) = 0 THEN << <<91, 93>> >>
         ELSE LET elem(i) ==
                    LET buf == IF i = 1 THEN <<91>> \o NewlineIndent(level + 1)
                               ELSE <<44>> \o NewlineIndent(level + 1)
                        e == v.a[i]
                    IN IF e.t = "str" THEN <<buf \o Encoder(e.s)>>
                       ELSE IF e.t = "null" THEN <<buf \o NullText>>
                       ELSE <<buf>> \o JsonDumpChunks(e, level + 1)
              IN Flatten([i \in 1..Len(v.a) |-> elem(i)])
                   \o <<NewlineIndent(level), <<93>> >>
    [] v.t = "obj" ->
         IF Len(v.o) = 0 THEN << <<123, 125>> >>
         ELSE LET item(i) ==
                    (IF i = 1 THEN <<>> ELSE << <<44>> \o NewlineIndent(level + 1) >>)
                      \o <<Encoder(v.o[i].k), <<58, 32>> >>
                      \o JsonDumpChunks(v.o[i].v, level + 1)
              IN << <<123>>, NewlineIndent(level + 1) >>
                   \o Flatten([i \in 1..Len(v.o) |-> item(i)])
                   \o <<NewlineIndent(level), <<125>> >>

JsonDumps(v) == Flatten(JsonDumpChunks(v, 0))

(***************************************************************************)
(* json.loads, as a recursive-descent parser over the characters.          *)
(***************************************************************************)
Min(S) == CHOOSE x \in S : \A y \in S : x <= y

\* the first position >= i holding no white space (Len(s) + 1 at the end)
SkipWs(s, i) == Min({j \in i..(Len(s) + 1) : j > Len(s) \/ ~IsWs(s[j])})

\* the number of backslashes immediately before position i, not before lo
BackslashRun(s, lo, i) ==
  Min({n \in 0..(i - lo) : n = i - lo \/ s[i - n - 1] # 92})

\* s[i] is a backslash that escapes the character after it
IsEscaper(s, lo, i) == s[i] = 92 /\ BackslashRun(s, lo, i) % 2 = 0

\* the closing quote of the string literal whose content starts at lo
\* (0 when the literal is never closed)
ClosingQuote(s, lo) ==
  LET ends == {j \in lo..Len(s) : s[j] = 34 /\ BackslashRun(s, lo, j) % 2 = 0}
  IN IF ends = {} THEN 0 ELSE Min(ends)

RECURSIVE UnescapeRange(_, _, _, _)
UnescapeRange(s, lo, a, b) ==
  IF a > b THEN <<>>
  ELSE IF a = b THEN (IF IsEscaper(s, lo, a) THEN <<>> ELSE <<s[a]>>)
  ELSE LET m == (a + b) \div 2
       IN UnescapeRange(s, lo, a, m) \o UnescapeRange(s, lo, m + 1, b)

ParseFail == [ok |-> FALSE, v |-> JNull, next |-> 0]
Parsed(v, next) == [ok |-> TRUE, v |-> v, next |-> next]

RECURSIVE ParseValue(_, _), ParseElems(_, _, _), ParseMembers(_, _, _),
          ElemRead(_, _, _), KeyRead(_, _, _), MemberRead(_, _, _, _)
ParseValue(s, i) ==
  IF i > Len(s) THEN ParseFail
  ELSE CASE s[i] = 34 ->
              LET q == ClosingQuote(s, i + 1)
              IN IF q = 0 THEN ParseFail
                 ELSE Parsed(JStr(UnescapeRange(s, i + 1, i + 1, q - 1)), q + 1)
         [] s[i] = 110 ->
              IF i + 3 <= Len(s) /\ SubSeq(s, i, i + 3) = NullText
              THEN Parsed(JNull, i + 4) ELSE ParseFail
         [] s[i] = 91 ->
              LET j == SkipWs(s, i + 1)
              IN IF j <= Len(s) /\ s[j] = 93 THEN Parsed(JArr(<<>>), j + 1)
                 ELSE ParseElems(s, j, <<>>)
         [] s[i] = 123 ->
              LET j == SkipWs(s, i + 1)
              IN IF j <= Len(s) /\ s[j] = 125 THEN Parsed(JObj(<<>>), j + 1)
                 ELSE ParseMembers(s, j, <<>>)
         [] OTHER -> ParseFail

\* the elements of an array from position i on, acc the ones already read
ParseElems(s, i, acc) == ElemRead(s, acc, ParseValue(s, i))

\* r is the element just read
ElemRead(s, acc, r) ==
  LET j == SkipWs(s, r.next)
  IN IF ~r.ok \/ j > Len(s) THEN ParseFail
     ELSE IF s[j] = 93 THEN Parsed(JArr(Append(acc, r.v)), j + 1)
     ELSE IF s[j] = 44 THEN ParseElems(s, SkipWs(s, j + 1), Append(acc, r.v))
     ELSE ParseFail

\* the members of an object from position i on, acc the ones already read
ParseMembers(s, i, acc) == KeyRead(s, acc, ParseValue(s, i))

\* k is the key just read
KeyRead(s, acc, k) ==
  LET c == SkipWs(s, k.next)
  IN IF ~k.ok \/ k.v.t # "str" \/ c > Len(s) \/ s[c] # 58 THEN ParseFail
     ELSE MemberRead(s, acc, k.v.s, ParseValue(s, SkipWs(s, c + 1)))

\* r is the value just read for the key
MemberRead(s, acc, key, r) ==
  LET j == SkipWs(s, r.next)
      \* a repeated key keeps its last value
      kept == SelectSeq(acc, LAMBDA m : m.k # key)
  IN IF ~r.ok \/ j > Len(s) THEN ParseFail
     ELSE IF s[j] = 125
          THEN Parsed(JObj(Append(kept, Member(key, r.v))), j + 1)
     ELSE IF s[j] = 44
          THEN ParseMembers(s, SkipWs(s, j + 1), Append(kept, Member(key, r.v)))
     ELSE ParseFail

\* r is the value read from the start: nothing but white space may follow
WholeText(s, r) ==
  IF r.ok /\ SkipWs(s, r.next) > Len(s) THEN [ok |-> TRUE, v |-> r.v]
  ELSE [ok |-> FALSE, v |-> JNull]

\* json.loads(text): [ok, v]; ok is FALSE where json raises JSONDecodeError
JsonLoads(s) == WholeText(s, ParseValue(s, SkipWs(s, 1)))

(***************************************************************************)
(* String literals of the scripts and key names of the documents.          *)
(***************************************************************************)
K_api_key == <<97, 112, 105, 95, 107, 101, 121>>                     \* "api_key"
K_data == <<100, 97, 116, 97>>                                       \* "data"
K_text == <<116, 101, 120, 116>>                                     \* "text"
K_sections == <<115, 101, 99, 116, 105, 111, 110, 115>>              \* "sections"
K_title == <<116, 105, 116, 108, 101>>                               \* "title"
K_metadata == <<109, 101, 116, 97, 100, 97, 116, 97>>                \* "metadata"
K_finalUrl == <<102, 105, 110, 97, 108, 85, 114, 108>>               \* "finalUrl"
K_loadTime == <<108, 111, 97, 100, 84, 105, 109, 101>>               \* "loadTime"
K_contentLength == <<99, 111, 110, 116, 101, 110, 116, 76, 101, 110, 103, 116, 104>>
K_jobs == <<106, 111, 98, 115>>                                      \* "jobs"
K_job_id == <<106, 111, 98, 95, 105, 100>>                           \* "job_id"
K_created_at == <<99, 114, 101, 97, 116, 101, 100, 95, 97, 116>>     \* "created_at"
K_error == <<101, 114, 114, 111, 114>>                               \* "error"
NA == <<78, 47, 65>>                                                 \* "N/A"
Untitled == <<85, 110, 116, 105, 116, 108, 101, 100>>                \* "Untitled"
Dots == <<46, 46, 46>>                                               \* "..."
\* "YOUR_API_KEY_HERE"
Placeholder == <<89, 79, 85, 82, 95, 65, 80, 73, 95, 75, 69, 89, 95, 72, 69, 82, 69>>
\* "0IsGoeQuG0jpWgG5ehwPkRMDWgmfyzjv"
WikiKey == <<48, 73, 115, 71, 111, 101, 81, 117, 71, 48, 106, 112, 87, 103, 71, 53,
             101, 104, 119, 80, 107, 82, 77, 68, 87, 103, 109, 102, 121, 122, 106, 118>>
WikipediaUrl == "https://www.wikipedia.org/"
CrawlOptions == "extractText,extractLinks,extractMeta,!screenshot"

\* the length of a text preview
PreviewLen == 200

(***************************************************************************)
(* The state.                                                              *)
(***************************************************************************)
VARIABLES
  script,        \* the entry point that runs: "api" is a caller using the
                 \* client directly, the others are the three main functions
  pc,            \* the position in that entry point
  api_key,       \* CrawlioClient.api_key (PyNone until set)
  API_KEY,       \* the credential constant of simple_crawler.main
  timestamp,     \* int(time.time()) as read by a driver
  last,          \* the last client call: arguments, response, result
  out,           \* the lines printed (by the last call under "api", by the
                 \* whole run under a driver)
  file,          \* the result file of the run
  net,           \* the number of network requests issued so far
  exit,          \* "running", or the exit status "0" or "1"
  calls,         \* the number of client calls made under "api"
  pending,       \* the client call in flight under "api"
  jsonErrCaught  \* the installed requests raises its own JSONDecodeError, a
                 \* RequestException (requests >= 2.27), from response.json();
                 \* older ones let json's ValueError through

vars == <<script, pc, api_key, API_KEY, timestamp, last, out, file, net, exit,
          calls, pending, jsonErrCaught>>

(***************************************************************************)
(* Responses of the remote service.                                        *)
(***************************************************************************)
NoResponse == [kind |-> "none"]
TransportError == [kind |-> "error"]
Http(status, text) == [kind |-> "http", status |-> status, text |-> text]

\* RaisesForStatus with the client errors forgotten
RaisesForStatus_ServerErrorsOnly(resp) == resp.status >= 500 /\ resp.status < 600

\* Response.raise_for_status raises HTTPError for 4xx and 5xx
RaisesForStatus(resp) == resp.status >= 400 /\ resp.status < 600

\* bool(response) is response.ok: no HTTPError from raise_for_status
ResponseBool(resp) == ~RaisesForStatus(resp)

\* the except clauses name requests.exceptions.RequestException
IsRequestException(e) ==
  \/ e.type \in {"ConnectionError", "HTTPError"}
  \/ e.type = "JSONDecodeError" /\ jsonErrCaught

NoExc == [type |-> "none", response |-> NoResponse]
Exc(type, resp) == [type |-> type, response |-> resp]

\* session.post / session.get, raise_for_status and response.json() in
\* turn: the parsed document, or the exception raised on the way
ResponseJson(p) ==
  IF p.ok THEN [exc |-> NoExc, data |-> p.v]
  ELSE [exc |-> Exc("JSONDecodeError", NoResponse), data |-> JNull]

Fetch(resp) ==
  IF resp.kind = "error" THEN [exc |-> Exc("ConnectionError", NoResponse), data |-> JNull]
  ELSE IF RaisesForStatus(resp) THEN [exc |-> Exc("HTTPError", resp), data |-> JNull]
  ELSE ResponseJson(JsonLoads(resp.text))

\* if hasattr(e, 'response') and e.response: the error payload, or the raw
\* text where the body does not parse
ErrorPayload(e, p) ==
  IF p.ok THEN <<[tag |-> "Error details", json |-> p.v]>>
  ELSE <<[tag |-> "Response", text |-> e.response.text]>>

ErrorDetails(e) ==
  IF e.response.kind = "http" /\ ResponseBool(e.response)
  THEN ErrorPayload(e, JsonLoads(e.response.text))
  ELSE <<>>

\* what a client call leaves behind
Result(ret, exc, key, lines, reqs) ==
  [ret |-> ret, exc |-> exc, key |-> key, out |-> lines, reqs |-> reqs]

(***************************************************************************)
(* CrawlioClient                                                           *)
(***************************************************************************)
\* register_user from the answer on: f is what Fetch made of it
RegisterDone(key, email, password, first_name, last_name, f) ==
  LET req == [method |-> "POST", path |-> "/api/auth/register",
              json |-> [email |-> email, password |-> password,
                        first_name |-> first_name, last_name |-> last_name],
              headers |-> <<>>]
      hello == <<[tag |-> "Registering user", email |-> email]>>
  IN IF f.exc.type # "none"
     THEN IF IsRequestException(f.exc)
          THEN Result(PyBool(FALSE), "none", key,
                      hello \o <<[tag |-> "Registration failed", exc |-> f.exc.type]>>
                            \o ErrorDetails(f.exc),
                      <<req>>)
          ELSE Result(PyNone, f.exc.type, key, hello, <<req>>)
     ELSE IF f.data.t # "obj"
          THEN \* data.get on a list, a string or None
               Result(PyNone, "AttributeError", key, hello, <<req>>)
     ELSE LET got == DictGet(f.data, K_api_key, PyNone)
          IN IF Truthy(got)
             THEN Result(PyBool(TRUE), "none", got,
                         hello \o <<[tag |-> "Registration successful!"],
                                    [tag |-> "API Key", val |-> got]>>,
                         <<req>>)
             ELSE Result(PyBool(FALSE), "none", got,
                         hello \o <<[tag |-> "Registration failed - no API key received"]>>,
                         <<req>>)

RegisterUser(key, email, password, first_name, last_name, resp) ==
  RegisterDone(key, email, password, first_name, last_name, Fetch(resp))

NoKeyLine == [tag |-> "No API key available. Please register first."]

\* crawl_url from the answer on
CrawlDone(key, url, options, f) ==
  LET payload == IF options \notin {"None", "{}"}
                 THEN [url |-> url, options |-> options] ELSE [url |-> url]
      req == [method |-> "POST", path |-> "/api/crawl/url", json |-> payload,
              headers |-> <<[name |-> "Content-Type", value |-> "application/json"],
                            [name |-> "x-api-key", value |-> key]>>]
      hello == <<[tag |-> "Crawling", url |-> url]>>
  IN IF f.exc.type # "none"
     THEN IF IsRequestException(f.exc)
          THEN Result(PyNone, "none", key,
                      hello \o <<[tag |-> "Crawling failed", exc |-> f.exc.type]>>
                            \o ErrorDetails(f.exc),
                      <<req>>)
          ELSE Result(PyNone, f.exc.type, key, hello, <<req>>)
     ELSE Result(f.data, "none", key,
                 hello \o <<[tag |-> "Crawling completed successfully!"]>>, <<req>>)

\* CrawlUrl without the check of the token
CrawlUrl_NoTokenCheck(key, url, options, resp) ==
  CrawlDone(key, url, options, Fetch(resp))

CrawlUrl(key, url, options, resp) ==
  IF ~Truthy(key) THEN Result(PyNone, "none", key, <<NoKeyLine>>, <<>>)
  ELSE CrawlDone(key, url, options, Fetch(resp))

\* get_crawl_history from the answer on
HistoryDone(key, f) ==
  LET req == [method |-> "GET", path |-> "/api/crawl/history",
              json |-> [none |-> TRUE],
              headers |-> <<[name |-> "x-api-key", value |-> key]>>]
      hello == <<[tag |-> "Fetching crawl history..."]>>
  IN IF f.exc.type # "none"
     THEN IF IsRequestException(f.exc)
          THEN Result(PyNone, "none", key,
                      hello \o <<[tag |-> "Failed to get history", exc |-> f.exc.type]>>,
                      <<req>>)
          ELSE Result(PyNone, f.exc.type, key, hello, <<req>>)
     ELSE Result(f.data, "none", key,
                 hello \o <<[tag |-> "History retrieved successfully!"]>>, <<req>>)

GetCrawlHistory(key, resp) ==
  IF ~Truthy(key) THEN Result(PyNone, "none", key, <<NoKeyLine>>, <<>>)
  ELSE HistoryDone(key, Fetch(resp))

(***************************************************************************)
(* The drivers' helpers.                                                   *)
(***************************************************************************)
\* k in v, for a dict or a list v
In(k, v) ==
  CASE v.t = "obj" -> HasKey(v, k)
    [] v.t = "arr" -> \E i \in 1..Len(v.a) : v.a[i] = JStr(k)

\* text[:n]
Prefix(text, n) == SubSeq(text, 1, IF Len(text) < n THEN Len(text) ELSE n)

\* crawlio_client.main: text[:200] + "..." if len(text) > 200 else text
TextPreview(text) ==
  IF Len(text) > PreviewLen THEN Prefix(text, PreviewLen) \o Dots ELSE text

\* crawl_wiki.main: the same expression
WikiTextPreview(text) ==
  IF Len(text) > PreviewLen THEN Prefix(text, PreviewLen) \o Dots ELSE text

\* simple_crawler.crawl_with_api_key: text[:200] + "..."
SimpleTextPreview(text) == Prefix(text, PreviewLen) \o Dots

\* print(f"...: {metadata.get(key, 'N/A')}")
MetaLine(tag, metadata, key) ==
  [tag |-> tag, val |-> DictGet(metadata, key, JStr(NA))]

\* crawlio_client.main, the summary of a truthy crawl result
MainSummaryLines(crawl_result) ==
  <<[tag |-> "Crawl Results Summary:"]>>
  \o (IF In(K_data, crawl_result)
      THEN LET data == DictGet(crawl_result, K_data, JNull)
               sections == DictGet(data, K_sections, JNull)
           IN (IF In(K_text, data)
               THEN <<[tag |-> "Text Preview",
                       text |-> TextPreview(DictGet(data, K_text, JNull).s)]>>
               ELSE <<>>)
              \o (IF In(K_sections, data) /\ Truthy(sections)
                  THEN <<[tag |-> "Sections Found", n |-> Len(sections.a)]>>
                       \o [i \in 1..Len(Prefix(sections.a, 3)) |->
                             [tag |-> "section", i |-> i,
                              title |-> DictGet(sections.a[i], K_title, JStr(Untitled))]]
                  ELSE <<>>)
      ELSE <<>>)
  \o (IF In(K_metadata, crawl_result)
      THEN LET metadata == DictGet(crawl_result, K_metadata, JNull)
           IN <<MetaLine("Final URL", metadata, K_finalUrl),
                MetaLine("Load Time", metadata, K_loadTime),
                MetaLine("Content Length", metadata, K_contentLength)>>
      ELSE <<>>)

\* crawl_wiki.main, what it prints about the result
WikiLines(result) ==
  IF ~Truthy(result) THEN <<[tag |-> "Crawl failed"]>>
  ELSE
  <<[tag |-> "Crawl successful!"]>>
  \o (IF In(K_data, result)
      THEN LET data == DictGet(result, K_data, JNull)
               sections == DictGet(data, K_sections, JNull)
           IN (IF In(K_text, data)
               THEN <<[tag |-> "Text Preview",
                       text |-> WikiTextPreview(DictGet(data, K_text, JNull).s)]>>
               ELSE <<>>)
              \o (IF In(K_sections, data) /\ Truthy(sections)
                  THEN <<[tag |-> "Sections Found", n |-> Len(sections.a)]>>
                  ELSE <<>>)
      ELSE <<>>)
  \o (IF In(K_metadata, result)
      THEN LET metadata == DictGet(result, K_metadata, JNull)
           IN <<MetaLine("Final URL", metadata, K_finalUrl),
                MetaLine("Load Time", metadata, K_loadTime),
                MetaLine("Content Length", metadata, K_contentLength)>>
      ELSE <<>>)

\* crawlio_client.main, what it prints about the history
HistoryLines(history) ==
  IF Truthy(history) /\ In(K_jobs, history)
  THEN LET jobs == DictGet(history, K_jobs, JNull)
       IN <<[tag |-> "Total crawl jobs", n |-> Len(jobs.a)]>>
          \o (IF Truthy(jobs)
              THEN <<[tag |-> "Latest Job ID",
                      val |-> DictGet(jobs.a[1], K_job_id, JStr(NA))],
                     [tag |-> "Created",
                      val |-> DictGet(jobs.a[1], K_created_at, JStr(NA))]>>
              ELSE <<>>)
  ELSE <<>>

\* with open(name, 'w', encoding='utf-8') as f: json.dump(doc, f, indent=2,
\* ensure_ascii=False).  Each chunk is encoded as it is written; a chunk
\* with a surrogate raises UnicodeEncodeError and the file keeps the
\* chunks written before it.
NoFile == [exists |-> FALSE, name |-> <<>>, content |-> <<>>]
WriteChunks(name, chunks) ==
  LET bad == {i \in 1..Len(chunks) : HasSurrogate(chunks[i])}
  IN IF bad = {}
     THEN [exc |-> "none",
           file |-> [exists |-> TRUE, name |-> name, content |-> Flatten(chunks)]]
     ELSE [exc |-> "UnicodeEncodeError",
           file |-> [exists |-> TRUE, name |-> name,
                     content |-> Flatten(SubSeq(chunks, 1, Min(bad) - 1))]]

SaveJson(name, doc) == WriteChunks(name, JsonDumpChunks(doc, 0))

(***************************************************************************)
(* simple_crawler.crawl_with_api_key                                       *)
(***************************************************************************)
\* crawl_with_api_key from the answer on
SimpleCrawlDone(key, url, f) ==
  LET req == [method |-> "POST", path |-> "/api/crawl/url",
              json |-> [url |-> url, options |-> CrawlOptions],
              headers |-> <<[name |-> "Content-Type", value |-> "application/json"],
                            [name |-> "x-api-key", value |-> key]>>]
      hello == <<[tag |-> "Crawling", url |-> url]>>
      data == f.data
  IN IF f.exc.type # "none"
     THEN IF IsRequestException(f.exc)
          THEN Result(PyNone, "none", key,
                      hello \o <<[tag |-> "Crawling failed", exc |-> f.exc.type]>>,
                      <<req>>)
          ELSE Result(PyNone, f.exc.type, key, hello, <<req>>)
     ELSE IF data.t = "null"
          THEN \* 'data' in None
               Result(PyNone, "TypeError", key,
                      hello \o <<[tag |-> "Crawling completed successfully!"]>>, <<req>>)
     ELSE Result(data, "none", key,
                 hello \o <<[tag |-> "Crawling completed successfully!"]>>
                 \o (IF In(K_data, data) /\ In(K_text, DictGet(data, K_data, JNull))
                     THEN <<[tag |-> "Text Preview",
                             text |-> SimpleTextPreview(
                                        DictGet(DictGet(data, K_data, JNull), K_text, JNull).s)]>>
                     ELSE <<>>)
                 \o (IF In(K_metadata, data)
                     THEN LET metadata == DictGet(data, K_metadata, JNull)
                          IN <<MetaLine("Final URL", metadata, K_finalUrl),
                               MetaLine("Load Time", metadata, K_loadTime)>>
                     ELSE <<>>),
                 <<req>>)

CrawlWithApiKey(key, url, resp) == SimpleCrawlDone(key, url, Fetch(resp))

(***************************************************************************)
(* The environment: what callers pass and what the service answers.        *)
(***************************************************************************)
\* the client calls a caller makes under "api"
MaxCalls == 2
\* the texts run up to PreviewLen + MaxOver characters
MaxOver == 2

Emails == {"user@example.com", "not-an-email"}
Passwords == {"testpass123", ""}
FirstNames == {"Test", ""}
LastNames == {"User", ""}
Urls == {WikipediaUrl, "not a url"}
OptionChoices == {"None", "{}", CrawlOptions}
Timestamps == {1700000000, 1700000001}

TokenA == <<107, 49>>          \* "k1"
TokenB == <<107, 50>>          \* "k2"
SimpleKey == <<107, 101, 121>> \* "key"

Statuses == {200, 201, 300, 404, 503}

\* texts around the preview length, and three with characters the dump and
\* the file treat specially: a quote and a backslash, a non-ASCII letter,
\* and a lone surrogate (a body carries it as the escape \ud800; the
\* parsed document holds the code 55296, here in the body as well)
TextOfLen(n) == [i \in 1..n |-> 97 + (i % 3)]
Texts ==
  {TextOfLen(n) : n \in {0, 1, PreviewLen - 1} \cup (PreviewLen..(PreviewLen + MaxOver))}
    \cup {<<34, 92, 97>>, <<233>>, <<97, 55296>>}

Str(s) == JStr(s)
Obj1(k, v) == JObj(<<Member(k, v)>>)
Obj2(k1, v1, k2, v2) == JObj(<<Member(k1, v1), Member(k2, v2)>>)

RegisterDocs ==
  {Obj1(K_api_key, Str(TokenA)), Obj1(K_api_key, Str(TokenB)),
   Obj1(K_api_key, Str(<<>>)), Obj1(K_api_key, JNull),
   JObj(<<>>), Obj1(K_error, Str(<<97>>)), JArr(<<>>), JNull}

CrawlDocs ==
  {Obj2(K_data, Obj1(K_text, Str(t)), K_metadata, JObj(<<>>)) : t \in Texts}
    \cup {Obj2(K_data,
               Obj2(K_text, Str(<<97>>),
                    K_sections, JArr(<<Obj1(K_title, Str(<<97>>)), JObj(<<>>)>>)),
               K_metadata, Obj1(K_finalUrl, Str(<<97>>))),
          Obj1(K_data, JObj(<<>>)), Obj1(K_error, Str(<<97>>)),
          JObj(<<>>), JArr(<<>>), JArr(<<JNull>>), JNull}

HistoryDocs ==
  {Obj1(K_jobs, JArr(<<>>)),
   Obj1(K_jobs, JArr(<<Obj2(K_job_id, Str(<<97>>), K_created_at, Str(<<98>>)), JObj(<<>>)>>)),
   Obj1(K_jobs, JArr(<<JObj(<<>>)>>)),
   Obj1(K_error, Str(<<97>>)), JObj(<<>>), JArr(<<JNull>>), JNull}

\* bodies that are no JSON: "<" and the empty body
Garbage == {<<60>>, <<>>}

Responses(docs) ==
  {TransportError}
    \cup {Http(st, body) : st \in Statuses, body \in {JsonDumps(d) : d \in docs} \cup Garbage}

RegisterResponses == Responses(RegisterDocs)
CrawlResponses == Responses(CrawlDocs)
HistoryResponses == Responses(HistoryDocs)

(***************************************************************************)
(* Init                                                                    *)
(***************************************************************************)
Call(op, prior, resp, r) ==
  [op |-> op, prior |-> prior, resp |-> IF r.reqs = <<>> THEN NoResponse ELSE resp,
   ret |-> r.ret, exc |-> r.exc, reqs |-> r.reqs]
NoCall ==
  [op |-> "none", prior |-> PyNone, resp |-> NoResponse, ret |-> PyNone,
   exc |-> "none", reqs |-> <<>>]

NoPending == [op |-> "none", args |-> <<>>]

Init ==
  /\ script \in {"api", "crawlio_client", "crawl_wiki", "simple_crawler"}
  /\ pc = "start"
  /\ api_key = PyNone
  /\ API_KEY \in (IF script = "simple_crawler" THEN {Placeholder, SimpleKey}
                  ELSE {Placeholder})
  /\ timestamp = 0
  /\ last = NoCall
  /\ out = <<>>
  /\ file = NoFile
  /\ net = 0
  /\ exit = "running"
  /\ calls = 0
  /\ pending = NoPending
  /\ jsonErrCaught \in BOOLEAN

\* an exception nobody catches ends the process with a traceback, status 1
Crash(call, lines, f) ==
  /\ pc' = "crashed"
  /\ exit' = "1"
  /\ last' = call
  /\ out' = out \o lines
  /\ file' = f
  /\ net' = net + Len(call.reqs)

(***************************************************************************)
(* "api": a caller that owns a client and calls its methods in any order.  *)
(* A call is two steps: the caller makes it (pending), then the service    *)
(* answers and the method runs to its end.                                 *)
(***************************************************************************)
ApiCall(p) ==
  /\ script = "api"
  /\ pending = NoPending
  /\ calls < MaxCalls
  /\ calls' = calls + 1
  /\ pending' = p
  /\ last' = NoCall
  /\ out' = <<>>
  /\ UNCHANGED <<script, pc, api_key, API_KEY, timestamp, file, net, exit, jsonErrCaught>>

ApiReturn(call, key, lines) ==
  /\ pending' = NoPending
  /\ api_key' = key
  /\ last' = call
  /\ out' = lines
  /\ net' = net + Len(call.reqs)
  /\ UNCHANGED <<script, pc, API_KEY, timestamp, file, exit, calls, jsonErrCaught>>

ApiCallRegister ==
  \E email \in Emails, password \in Passwords, first_name \in FirstNames,
     last_name \in LastNames :
    ApiCall([op |-> "register_user", args |-> <<email, password, first_name, last_name>>])

ApiRegister ==
  /\ pending.op = "register_user"
  /\ \E resp \in RegisterResponses :
     \E r \in {RegisterUser(api_key, pending.args[1], pending.args[2],
                             pending.args[3], pending.args[4], resp)} :
       ApiReturn(Call("register_user", api_key, resp, r), r.key, r.out)

ApiCallCrawl ==
  \E url \in Urls, options \in OptionChoices :
    ApiCall([op |-> "crawl_url", args |-> <<url, options>>])

ApiCrawl ==
  /\ pending.op = "crawl_url"
  /\ \E resp \in CrawlResponses :
     \E r \in {CrawlUrl(api_key, pending.args[1], pending.args[2], resp)} :
       ApiReturn(Call("crawl_url", api_key, resp, r), r.key, r.out)

ApiCallHistory == ApiCall([op |-> "get_crawl_history", args |-> <<>>])

ApiHistory ==
  /\ pending.op = "get_crawl_history"
  /\ \E resp \in HistoryResponses :
     \E r \in {GetCrawlHistory(api_key, resp)} :
       ApiReturn(Call("get_crawl_history", api_key, resp, r), r.key, r.out)

\* client.api_key = "...", as crawl_wiki.main does
ApiAssign ==
  /\ script = "api"
  /\ pending = NoPending
  /\ calls < MaxCalls
  /\ \E k \in {TokenA, WikiKey} :
       /\ api_key' = JStr(k)
       /\ last' = [NoCall EXCEPT !.op = "assign", !.prior = api_key]
  /\ calls' = calls + 1
  /\ out' = <<>>
  /\ UNCHANGED <<script, pc, pending, API_KEY, timestamp, file, net, exit, jsonErrCaught>>

(***************************************************************************)
(* crawlio_client.main                                                     *)
(***************************************************************************)
MainRegister ==
  /\ script = "crawlio_client" /\ pc = "start"
  /\ \E ts \in Timestamps, resp \in RegisterResponses :
     \E r \in {RegisterUser(api_key, <<"testuser_", ts, "@example.com">>,
                             "testpass123", "Test", "User", resp)} :
     \E call \in {Call("register_user", api_key, resp, r)} :
       LET banner == <<[tag |-> "Crawlio API Client Demo"], [tag |-> "1. User Registration"]>>
       IN /\ timestamp' = ts
          /\ api_key' = r.key
          /\ IF r.exc # "none" THEN Crash(call, banner \o r.out, file)
             ELSE /\ last' = call
                  /\ net' = net + Len(r.reqs)
                  /\ file' = file
                  /\ IF ~Truthy(r.ret)
                     THEN /\ out' = out \o banner \o r.out
                                      \o <<[tag |-> "Failed to register user. Exiting..."]>>
                          /\ exit' = "1"
                          /\ pc' = "exited"
                     ELSE /\ out' = out \o banner \o r.out
                          /\ exit' = exit
                          /\ pc' = "crawl"
  /\ UNCHANGED <<script, API_KEY, calls, pending, jsonErrCaught>>

MainCrawl ==
  /\ script = "crawlio_client" /\ pc = "crawl"
  /\ \E resp \in CrawlResponses :
     \E r \in {CrawlUrl(api_key, WikipediaUrl, CrawlOptions, resp)} :
     \E call \in {Call("crawl_url", api_key, resp, r)} :
       LET banner == <<[tag |-> "2. Website Crawling"]>>
       IN /\ api_key' = r.key
          /\ IF r.exc # "none" THEN Crash(call, banner \o r.out, file)
             ELSE /\ last' = call
                  /\ net' = net + Len(r.reqs)
                  /\ out' = out \o banner \o r.out
                  /\ pc' = "summary"
                  /\ UNCHANGED <<file, exit>>
  /\ UNCHANGED <<script, API_KEY, timestamp, calls, pending, jsonErrCaught>>

\* if crawl_result: print the summary and save the result
MainSummary ==
  /\ script = "crawlio_client" /\ pc = "summary"
  /\ LET crawl_result == last.ret
         output_file == <<"crawl_result_", timestamp, ".json">>
     IN IF ~Truthy(crawl_result)
        THEN /\ pc' = "history"
             /\ UNCHANGED <<out, file, exit>>
        ELSE \E w \in {SaveJson(output_file, crawl_result)} :
             /\ file' = w.file
             /\ IF w.exc # "none"
                THEN /\ pc' = "crashed"
                     /\ exit' = "1"
                     /\ out' = out \o MainSummaryLines(crawl_result)
                ELSE /\ pc' = "history"
                     /\ exit' = exit
                     /\ out' = out \o MainSummaryLines(crawl_result)
                                   \o <<[tag |-> "Full results saved to", name |-> output_file]>>
  /\ UNCHANGED <<script, api_key, API_KEY, timestamp, last, net, calls, pending, jsonErrCaught>>

MainHistory ==
  /\ script = "crawlio_client" /\ pc = "history"
  /\ \E resp \in HistoryResponses :
     \E r \in {GetCrawlHistory(api_key, resp)} :
     \E call \in {Call("get_crawl_history", api_key, resp, r)} :
       LET banner == <<[tag |-> "3. Crawl History"]>>
       IN /\ api_key' = r.key
          /\ IF r.exc # "none" THEN Crash(call, banner \o r.out, file)
             ELSE /\ last' = call
                  /\ net' = net + Len(r.reqs)
                  /\ out' = out \o banner \o r.out \o HistoryLines(r.ret)
                                \o <<[tag |-> "Demo completed successfully!"],
                                     [tag |-> "Your API Key", val |-> r.key]>>
                  /\ pc' = "done"
                  /\ exit' = "0"
                  /\ file' = file
  /\ UNCHANGED <<script, API_KEY, timestamp, calls, pending, jsonErrCaught>>

(***************************************************************************)
(* crawl_wiki.main                                                         *)
(***************************************************************************)
\* client = CrawlioClient(); client.api_key = "0IsGoe..."
WikiAssign ==
  /\ script = "crawl_wiki" /\ pc = "start"
  /\ api_key' = JStr(WikiKey)
  /\ out' = out \o <<[tag |-> "Crawling https://www.wikipedia.org/ using existing API key..."]>>
  /\ pc' = "crawl"
  /\ UNCHANGED <<script, API_KEY, timestamp, last, file, net, exit, calls, pending, jsonErrCaught>>

WikiCrawl ==
  /\ script = "crawl_wiki" /\ pc = "crawl"
  /\ \E resp \in CrawlResponses :
     \E r \in {CrawlUrl(api_key, WikipediaUrl, CrawlOptions, resp)} :
     \E call \in {Call("crawl_url", api_key, resp, r)} :
          /\ api_key' = r.key
          /\ IF r.exc # "none" THEN Crash(call, r.out, file)
             ELSE /\ last' = call
                  /\ net' = net + Len(r.reqs)
                  /\ out' = out \o r.out \o WikiLines(r.ret)
                  /\ pc' = "done"
                  /\ exit' = "0"
                  /\ file' = file
  /\ UNCHANGED <<script, API_KEY, timestamp, calls, pending, jsonErrCaught>>

(***************************************************************************)
(* simple_crawler.main                                                     *)
(***************************************************************************)
\* IsPlaceholder comparing with the wrong literal
IsPlaceholder_Empty(key) == key = <<>>

\* if API_KEY == "YOUR_API_KEY_HERE"
IsPlaceholder(key) == key = Placeholder

SimpleCheck ==
  /\ script = "simple_crawler" /\ pc = "start"
  /\ IF IsPlaceholder(API_KEY)
     THEN /\ out' = out \o <<[tag |-> "Please replace YOUR_API_KEY_HERE with your actual API key"],
                             [tag |-> "Get your API key by running: python crawlio_client.py"]>>
          /\ exit' = "1"
          /\ pc' = "exited"
     ELSE /\ out' = out \o <<[tag |-> "Simple Crawlio API Client"]>>
          /\ exit' = exit
          /\ pc' = "crawl"
  /\ UNCHANGED <<script, api_key, API_KEY, timestamp, last, file, net, calls, pending, jsonErrCaught>>

SimpleCrawl ==
  /\ script = "simple_crawler" /\ pc = "crawl"
  /\ \E resp \in CrawlResponses :
     \E r \in {CrawlWithApiKey(JStr(API_KEY), WikipediaUrl, resp)} :
     \E call \in {Call("crawl_with_api_key", JStr(API_KEY), resp, r)} :
          IF r.exc # "none" THEN Crash(call, r.out, file)
          ELSE /\ last' = call
               /\ net' = net + Len(r.reqs)
               /\ out' = out \o r.out
               /\ pc' = "save"
               /\ UNCHANGED <<file, exit>>
  /\ UNCHANGED <<script, api_key, API_KEY, timestamp, calls, pending, jsonErrCaught>>

\* if result: save it
SimpleSave ==
  /\ script = "simple_crawler" /\ pc = "save"
  /\ IF ~Truthy(last.ret)
     THEN /\ pc' = "done"
          /\ exit' = "0"
          /\ UNCHANGED <<out, file, timestamp>>
     ELSE \E ts \in Timestamps :
          \E w \in {SaveJson(<<"simple_crawl_", ts, ".json">>, last.ret)} :
            LET filename == <<"simple_crawl_", ts, ".json">>
            IN /\ timestamp' = ts
               /\ file' = w.file
               /\ IF w.exc # "none"
                  THEN /\ pc' = "crashed"
                       /\ exit' = "1"
                       /\ out' = out
                  ELSE /\ pc' = "done"
                       /\ exit' = "0"
                       /\ out' = out \o <<[tag |-> "Results saved to", name |-> filename],
                                          [tag |-> "Crawl completed successfully!"]>>
  /\ UNCHANGED <<script, api_key, API_KEY, last, net, calls, pending, jsonErrCaught>>

(***************************************************************************)
(* The specification                                                       *)
(***************************************************************************)
Next ==
  \/ ApiCallRegister
  \/ ApiRegister
  \/ ApiCallCrawl
  \/ ApiCrawl
  \/ ApiCallHistory
  \/ ApiHistory
  \/ ApiAssign
  \/ MainRegister
  \/ MainCrawl
  \/ MainSummary
  \/ MainHistory
  \/ WikiAssign
  \/ WikiCrawl
  \/ SimpleCheck
  \/ SimpleCrawl
  \/ SimpleSave

Spec == Init /\ [][Next]_vars

\* simple_crawler.py alone.  The placeholder check is the first statement
\* of main and waits for nothing: once the script is started, it is run.
SimpleInit == Init /\ script = "simple_crawler"
SimpleNext ==
  \/ SimpleCheck
  \/ SimpleCrawl
  \/ SimpleSave
SimpleSpec == SimpleInit /\ [][SimpleNext]_vars /\ WF_vars(SimpleCheck)

(***************************************************************************)
(* Properties of the last client call.                                     *)
(***************************************************************************)
ClientOps == {"register_user", "crawl_url", "get_crawl_history"}

\* the call returned v (no exception left it)
Returned(v) == last.exc = "none" /\ last.ret = v

\* what the operation returns on failure
FailureResult(op) == IF op = "register_user" THEN PyBool(FALSE) ELSE PyNone

\* the call got an HTTP response with a status in lo..hi
Answered(lo, hi) ==
  last.resp.kind = "http" /\ last.resp.status >= lo /\ last.resp.status <= hi

\* the body of the response, parsed
LastBody == JsonLoads(last.resp.text)

\* the response body is a JSON object
BodyIsObject == LastBody.ok /\ LastBody.v.t = "obj"

\* the value of the field k of the JSON object d, which has it
FieldOf(d, k) == d.o[CHOOSE i \in 1..Len(d.o) : d.o[i].k = k].v

NonEmptyString(v) == v.t = "str" /\ v.s # <<>>

\* some printed line has the tag
Printed(tag) == \E i \in 1..Len(out) : out[i].tag = tag

(***************************************************************************)
(* C1                                                                      *)
(***************************************************************************)
\* C1 as stated: whenever register_user receives a 2xx response whose JSON
\* body contains the field api_key, it returns True and the stored token is
\* the value of the field.
C1_Original ==
  (last.op = "register_user" /\ Answered(200, 299) /\ BodyIsObject
     /\ HasKey(LastBody.v, K_api_key))
  => /\ Returned(PyBool(TRUE))
     /\ api_key = FieldOf(LastBody.v, K_api_key)

\* C1 amended: whenever register_user receives a 2xx response whose JSON
\* body contains the field api_key with a truthy value (a non-empty string),
\* it returns True and the stored token is exactly the value of the field,
\* whatever the four registration inputs and the token before the call.
C1_RegisterStoresToken ==
  (last.op = "register_user" /\ Answered(200, 299) /\ BodyIsObject
     /\ HasKey(LastBody.v, K_api_key)
     /\ NonEmptyString(FieldOf(LastBody.v, K_api_key)))
  => /\ Returned(PyBool(TRUE))
     /\ api_key = FieldOf(LastBody.v, K_api_key)

\* a registration that replaces an earlier token, with inputs no server
\* would accept
C1_Witness ==
  /\ script = "api"
  /\ last.op = "register_user" /\ Answered(200, 299)
  /\ last.reqs[1].json.email = "not-an-email" /\ last.reqs[1].json.password = ""
  /\ last.prior = JStr(TokenA)
  /\ Returned(PyBool(TRUE))
  /\ api_key = JStr(TokenB)

C3_NoTokenNoRequest ==
  (last.op \in {"crawl_url", "get_crawl_history"} /\ last.prior = PyNone)
  => /\ Returned(PyNone)
     /\ last.reqs = <<>>
     /\ api_key = PyNone

\* both calls made on a fresh client
C3_Witness ==
  /\ script = "api" /\ calls = MaxCalls
  /\ last.op = "get_crawl_history" /\ last.prior = PyNone
  /\ Returned(PyNone) /\ net = 0
  /\ out = <<NoKeyLine>>

(***************************************************************************)
(* C4                                                                      *)
(***************************************************************************)
\* the network call of the last operation ended in a connection error or
\* in a status of lo..hi
FailedWith(lo, hi) ==
  /\ last.op \in ClientOps
  /\ last.reqs # <<>>
  /\ \/ last.resp.kind = "error"
     \/ Answered(lo, hi)

\* C4 as stated: for each of the three operations, a status outside 200..299
\* or a connection error makes the operation return its failure result, and
\* no exception leaves it.  (Stated for the cases that favour it: an
\* installed requests whose response.json() raises a RequestException, and
\* response bodies that are JSON objects.)
C4_Original ==
  (jsonErrCaught /\ (FailedWith(100, 199) \/ FailedWith(300, 599))
     /\ (last.resp.kind = "http" => BodyIsObject))
  => Returned(FailureResult(last.op))

\* C4 amended: for each of the three operations, a 4xx or 5xx status or a
\* connection error makes the operation return its failure result (False for
\* register_user, None for crawl_url and get_crawl_history), and no
\* exception leaves it.
C4_FailureStatus ==
  FailedWith(400, 599) => Returned(FailureResult(last.op))

\* a crawl answered 503, with a body that would have been a fine document
C4_Witness ==
  /\ last.op = "crawl_url" /\ Answered(500, 599) /\ BodyIsObject
  /\ HasKey(LastBody.v, K_data)
  /\ Returned(PyNone)
  /\ Printed("Crawling failed")

(***************************************************************************)
(* C5                                                                      *)
(***************************************************************************)
\* C5: the token changes only by a register_user call that succeeds: a
\* register_user call that fails leaves the token as it was before the call,
\* and crawl_url and get_crawl_history never change it.
C5_Original ==
  /\ (last.op = "register_user" /\ ~Returned(PyBool(TRUE))) => api_key = last.prior
  /\ last.op \in {"crawl_url", "get_crawl_history"} => api_key = last.prior

(***************************************************************************)
(* C6                                                                      *)
(***************************************************************************)
\* the field the operation looks for in the body
ExpectedField(op) ==
  CASE op = "register_user" -> K_api_key
    [] op = "crawl_url" -> K_data
    [] op = "get_crawl_history" -> K_jobs

\* the line the operation prints when it fails
Diagnostic(op) ==
  CASE op = "register_user" ->
         Printed("Registration failed") \/ Printed("Registration failed - no API key received")
    [] op = "crawl_url" -> Printed("Crawling failed")
    [] op = "get_crawl_history" -> Printed("Failed to get history")

\* C6: for each of the three operations, a 2xx response whose body is no
\* JSON, or JSON that is no object, or an object without the expected field,
\* ends like a transport failure: a falsy result, a printed diagnostic, and
\* no exception leaving the operation.  (Stated for an installed requests
\* whose response.json() raises a RequestException, the case that favours
\* it.)
C6_Original ==
  (jsonErrCaught /\ last.op \in ClientOps /\ script = "api" /\ Answered(200, 299)
     /\ (~BodyIsObject \/ ~HasKey(LastBody.v, ExpectedField(last.op))))
  => /\ last.exc = "none"
     /\ last.ret \in {PyNone, PyBool(FALSE), JStr(<<>>), JArr(<<>>), JObj(<<>>)}
     /\ Diagnostic(last.op)

(***************************************************************************)
(* C7                                                                      *)
(***************************************************************************)
\* C7: a successful crawl_url returns the parsed response document
\* unchanged, and the file a driver writes after the crawl parses back to
\* that document.
C7_Original ==
  /\ (last.op = "crawl_url" /\ Answered(200, 299) /\ LastBody.ok)
       => Returned(LastBody.v)
  /\ (last.op \in {"crawl_url", "crawl_with_api_key"} /\ file.exists)
       => JsonLoads(file.content) = [ok |-> TRUE, v |-> last.ret]

(***************************************************************************)
(* C8                                                                      *)
(***************************************************************************)
\* the text field of the document the last crawl returned
HasText ==
  /\ last.op \in {"crawl_url", "crawl_with_api_key"}
  /\ last.exc = "none" /\ last.ret.t = "obj"
  /\ HasKey(last.ret, K_data)
  /\ HasKey(FieldOf(last.ret, K_data), K_text)
CrawledText == FieldOf(FieldOf(last.ret, K_data), K_text).s

\* C8: every text preview a script prints is the first 200 characters of the
\* text followed by "..." when the text is longer than 200 characters, and
\* the text itself, without the marker, otherwise.
C8_Original ==
  HasText =>
    \A i \in 1..Len(out) :
      out[i].tag = "Text Preview" =>
        out[i].text = IF Len(CrawledText) > 200
                      THEN SubSeq(CrawledText, 1, 200) \o <<46, 46, 46>>
                      ELSE CrawledText

(***************************************************************************)
(* C9                                                                      *)
(***************************************************************************)
StillPlaceholder == script = "simple_crawler" /\ API_KEY = Placeholder

\* C9: in simple_crawler.main, with the credential constant still the
\* placeholder, the run issues no network request and writes no file, never
\* ends with status 0, and does end with status 1.
C9_PlaceholderExits ==
  /\ [](StillPlaceholder => (net = 0 /\ ~file.exists /\ exit # "0" /\ pc \in {"start", "exited"}))
  /\ (StillPlaceholder ~> (exit = "1" /\ pc = "exited"))

\* the run has ended on the placeholder check
C9_Witness ==
  /\ StillPlaceholder /\ pc = "exited" /\ exit = "1"
  /\ net = 0 /\ ~file.exists
  /\ Printed("Please replace YOUR_API_KEY_HERE with your actual API key")

(***************************************************************************)
(* C10                                                                     *)
(***************************************************************************)
\* C10: when crawl_url or get_crawl_history fails on a failure status, the
\* printed report holds the error payload of the response where its body
\* parses as JSON, and the raw text of the response otherwise.
C10_Original ==
  (last.op \in {"crawl_url", "get_crawl_history"} /\ Answered(400, 599))
  => IF LastBody.ok
     THEN \E i \in 1..Len(out) :
            out[i].tag = "Error details" /\ out[i].json = LastBody.v
     ELSE \E i \in 1..Len(out) :
            out[i].tag = "Response" /\ out[i].text = last.resp.text

=============================================================================
